---- MODULE Spec2Model ----
(***************************************************************************)
(* A model of the table normalisation pipeline of table-converter          *)
(* (src/src/utils.py): header search, reshaping around the header,         *)
(* forward fill, computed fields, field validation and dtype casting.      *)
(*                                                                         *)
(* Each function of utils.py is an operator computed the way the code      *)
(* computes it; each specification below draws the arguments of one group  *)
(* of functions from bounded sets and applies the functions to them.       *)
(*                                                                         *)
(* Python indices are kept 0-based in spans and header locations; a        *)
(* sequence s of the model holds Python's s[k] at position k + 1.          *)
(***************************************************************************)
EXTENDS Integers, Sequences, FiniteSets, TLC

VARIABLES
    pc,     \* position of the caller: which call has returned or raised
    data,   \* the DataFrame the caller holds (the first argument of the calls)
    arg,    \* the other argument of the call (search_nrows, header, pivot table),
            \* or the table the first of two calls was given
    out,    \* the value the last call returned
    err,    \* the error the last call raised, NoError if it returned
    old,    \* the contents of data when the last call was made
    cursor, \* core.run: the index of the pivot table the loops are at
    log,    \* core.run: the calls made so far, in order
    excel,  \* the Excel application and the workbook opened in it
    written, \* core.run: write_excel has written the output file
    pivots, \* the names of the pivot tables created in the workbook
    gui     \* the Tkinter front-end: its controls and its worker threads

vars == <<pc, data, arg, out, err, old, cursor, log, excel, written, pivots, gui>>

\* The variables of core.run's effects and of the front-end
envvars == <<cursor, log, excel, written, pivots, gui>>

\* No call of core.run has been made and no front-end is built
EnvIdle ==
    /\ cursor = 0
    /\ log = <<>>
    /\ excel = [app |-> "none", book |-> "none", closes |-> 0, saved |-> FALSE]
    /\ written = FALSE
    /\ pivots = <<>>
    /\ gui = [controls |-> "none", threads |-> <<>>]

(***************************************************************************)
(* Bounds of the model.                                                    *)
(***************************************************************************)
MaxRows == 3        \* rows of a grid
MaxCols == 4        \* columns of a grid
MaxCells == 6       \* cells of a grid (rows * columns)

(***************************************************************************)
(* Cell values.  A cell is missing (NaN / None), a text, or a float; text  *)
(* is a sequence of characters, and a float carries the characters str()   *)
(* gives for it.                                                           *)
(***************************************************************************)
NA == [kind |-> "na", text |-> <<>>]
Str(s) == [kind |-> "str", text |-> s]
Float(s) == [kind |-> "float", text |-> s]

Whitespace == {" ", "\t", "\n"}

\* pd.isna(val)
isna(val) == val.kind = "na"

\* str.lstrip()
RECURSIVE lstrip(_)
lstrip(s) ==
    IF s # <<>> /\ Head(s) \in Whitespace THEN lstrip(Tail(s)) ELSE s

\* str.rstrip()
RECURSIVE rstrip(_)
rstrip(s) ==
    IF s # <<>> /\ s[Len(s)] \in Whitespace
    THEN rstrip(SubSeq(s, 1, Len(s) - 1))
    ELSE s

\* str.strip()
strip(s) == rstrip(lstrip(s))

\* str(val) of a cell that is not missing
str(val) == val.text

\* A mutant of is_empty: tests for missing values only, not for blank text.
is_empty_isna_only(val) == isna(val)

\* find_header.is_empty: pd.isna(val) or not str(val).strip()
is_empty(val) == isna(val) \/ strip(str(val)) = <<>>

\* A mutant of width: the end of the span is taken as exclusive.
width_exclusive_end(span) == IF span = <<>> THEN 0 ELSE span[2] - span[1]

\* find_header.width: the width of a span (i, j), 0 for the empty tuple
width(span) == IF span = <<>> THEN 0 ELSE span[2] - span[1] + 1

\* The inner while loop of longest_nonempty_span: the first index j >= i with
\* j = n or row[j] empty.
RECURSIVE RunEnd(_, _)
RunEnd(row, j) ==
    IF j < Len(row) /\ ~is_empty(row[j + 1]) THEN RunEnd(row, j + 1) ELSE j

\* A mutant of SpanLoop: a later run of equal width replaces the current one.
RECURSIVE SpanLoopLastWins(_, _, _)
SpanLoopLastWins(row, i, last_span) ==
    IF i >= Len(row) THEN last_span
    ELSE IF is_empty(row[i + 1]) THEN SpanLoopLastWins(row, i + 1, last_span)
    ELSE LET span == <<i, RunEnd(row, i) - 1>>
         IN  SpanLoopLastWins(row, i + 1,
                 IF width(span) >= width(last_span) THEN span ELSE last_span)

\* The for loop of longest_nonempty_span from index i on, last_span being the
\* best span of the indices before i.
RECURSIVE SpanLoop(_, _, _)
SpanLoop(row, i, last_span) ==
    IF i >= Len(row) THEN last_span
    ELSE IF is_empty(row[i + 1]) THEN SpanLoop(row, i + 1, last_span)
    ELSE LET span == <<i, RunEnd(row, i) - 1>>
         IN  SpanLoop(row, i + 1,
                 IF width(span) > width(last_span) THEN span ELSE last_span)

\* find_header.longest_nonempty_span
longest_nonempty_span(row) == SpanLoop(row, 0, <<>>)

\* Python's t[1:] of a tuple
TupleTail(t) == IF t = <<>> THEN <<>> ELSE Tail(t)

\* The for loop of find_header from row i on, header being the best of the rows
\* before i; the loop ends after the last row, or after row search_nrows - 1.
RECURSIVE HeaderLoop(_, _, _, _)
HeaderLoop(rows, search_nrows, i, header) ==
    IF i >= Len(rows) THEN header
    ELSE LET span == longest_nonempty_span(rows[i + 1])
             next == IF width(span) > width(TupleTail(header))
                     THEN <<i>> \o span
                     ELSE header
         IN  IF i = search_nrows - 1 THEN next
             ELSE HeaderLoop(rows, search_nrows, i + 1, next)

\* The number of rows the loop of find_header visits.
ScannedRows(rows, search_nrows) ==
    IF 1 <= search_nrows /\ search_nrows <= Len(rows)
    THEN search_nrows
    ELSE Len(rows)

\* No value: nothing was returned
NoValue == [none |-> TRUE]

\* No error was raised: the call returned
NoError == [name |-> "none"]

\* errors.HeaderNotFoundError()
HeaderNotFoundError == [name |-> "HeaderNotFoundError"]

\* HeaderILocation(row, start_col, end_col)
HeaderILocation(t) == [row |-> t[1], start_col |-> t[2], end_col |-> t[3]]

\* find_header: the header location, or the error raised
find_header(rows, search_nrows) ==
    LET header == HeaderLoop(rows, search_nrows, 0, <<>>)
    IN  IF header = <<>>
        THEN [raised |-> HeaderNotFoundError]
        ELSE [raised |-> NoError, value |-> HeaderILocation(header)]

\* Python's s[a:b] for 0 <= a, 0 <= b
PySlice(s, a, b) ==
    LET hi == IF b < Len(s) THEN b ELSE Len(s)
    IN  IF a >= hi THEN <<>> ELSE SubSeq(s, a + 1, hi)

\* shrink_to_header: the rows after the header row and the columns
\* start_col:end_col of iloc, named by the same columns of the header row
shrink_to_header(rows, header) ==
    [columns |-> PySlice(rows[header.row + 1], header.start_col, header.end_col),
     rows |-> [r \in 1..(Len(rows) - (header.row + 1)) |->
                  PySlice(rows[header.row + 1 + r], header.start_col,
                          header.end_col)]]

(***************************************************************************)
(* The grids of the header search: every grid of at most MaxRows rows,     *)
(* MaxCols columns and MaxCells cells over a missing cell, a blank text    *)
(* and a text.                                                             *)
(***************************************************************************)
HeaderCells == {NA, Str(<<" ">>), Str(<<"a">>)}

GridsOf(cells) ==
    UNION {[1..r -> [1..c -> cells]] :
              <<r, c>> \in {s \in (0..MaxRows) \X (1..MaxCols) :
                               s[1] * s[2] <= MaxCells}}

\* The header locations inside a grid
LocationsIn(rows) ==
    IF rows = <<>> THEN {}
    ELSE {[row |-> r, start_col |-> s, end_col |-> e] :
             <<r, s, e>> \in {t \in (0..(Len(rows) - 1))
                                     \X (0..(Len(rows[1]) - 1))
                                     \X (0..(Len(rows[1]) - 1)) : t[2] <= t[3]}}


(***************************************************************************)
(* The header specification: core.run's calls of find_header and           *)
(* shrink_to_header on a grid, and shrink_to_header at any location.       *)
(***************************************************************************)
InitHeader ==
    /\ pc = "start"
    /\ data \in GridsOf(HeaderCells)
    /\ arg \in 0..(MaxRows + 1)
    /\ out = NoValue
    /\ err = NoError
    /\ old = NoValue
    /\ EnvIdle

\* header = find_header(data, search_nrows)
FindHeader ==
    /\ pc = "start"
    /\ LET res == find_header(data, arg)
       IN  IF res.raised = NoError
           THEN /\ pc' = "found"
                /\ out' = res.value
                /\ err' = NoError
           ELSE /\ pc' = "failed"
                /\ out' = NoValue
                /\ err' = res.raised
    /\ old' = data
    /\ UNCHANGED <<data, arg>>
    /\ UNCHANGED envvars

\* data = shrink_to_header(data, header) with the header find_header returned
ShrinkToHeader ==
    /\ pc = "found"
    /\ pc' = "shrunk"
    /\ arg' = out
    /\ out' = shrink_to_header(data, out)
    /\ old' = data
    /\ UNCHANGED <<data, err>>
    /\ UNCHANGED envvars

\* shrink_to_header(data, header) at any header location of the grid
ShrinkAt ==
    /\ pc = "start"
    /\ \E header \in LocationsIn(data) :
          /\ pc' = "shrunk"
          /\ arg' = header
          /\ out' = shrink_to_header(data, header)
    /\ old' = data
    /\ UNCHANGED <<data, err>>
    /\ UNCHANGED envvars

NextHeader == FindHeader \/ ShrinkToHeader \/ ShrinkAt

SpecHeader == InitHeader /\ [][NextHeader]_vars

(***************************************************************************)
(* Notions the claims about the header search are stated with, defined     *)
(* from the words of the claims and not from the operators above.          *)
(***************************************************************************)
\* A cell is blank: missing, or nothing but whitespace
Blank(c) == c.kind = "na" \/ \A k \in 1..Len(c.text) : c.text[k] \in Whitespace

\* The maximal runs <<s, e>> (0-based, e inclusive) of non-blank cells of a row
MaximalRuns(row) ==
    {t \in (0..(Len(row) - 1)) \X (0..(Len(row) - 1)) :
        /\ t[1] <= t[2]
        /\ \A k \in t[1]..t[2] : ~Blank(row[k + 1])
        /\ (t[1] = 0 \/ Blank(row[t[1]]))
        /\ (t[2] = Len(row) - 1 \/ Blank(row[t[2] + 2]))}

\* The positions <<r, c>> (0-based) of the non-blank cells of a grid
NonBlankCells(rows) ==
    {t \in (0..(Len(rows) - 1)) \X (0..(MaxCols + 1)) :
        /\ t[2] < Len(rows[t[1] + 1])
        /\ ~Blank(rows[t[1] + 1][t[2] + 1])}

\* find_header has returned or raised
HeaderSearched == pc \in {"found", "failed"}

\* C1 (as claimed; the code drops the last cell of the span): shrink_to_header
\* returns a table whose column names are the cells grid[row][start_col..end_col]
\* in order, end_col included, and whose row count is the input row count minus
\* (row + 1).
C1_ShrinkKeepsHeaderSpan ==
    pc = "shrunk" =>
        /\ out.columns = [k \in 1..(arg.end_col - arg.start_col + 1) |->
                             data[arg.row + 1][arg.start_col + k]]
        /\ Len(out.columns) = arg.end_col - arg.start_col + 1
        /\ Len(out.rows) = Len(data) - (arg.row + 1)

\* C2: when a scanned row has a non-blank cell, find_header returns a maximal
\* run of non-blank cells of a scanned row that no run of a scanned row exceeds
\* in width; a run of the same width lies in a later row, or in the same row
\* further right.
C2_WidestRunEarliestWins ==
    (HeaderSearched
     /\ \E t \in NonBlankCells(data) : t[1] < ScannedRows(data, arg))
    => /\ pc = "found"
       /\ out.row < ScannedRows(data, arg)
       /\ <<out.start_col, out.end_col>> \in MaximalRuns(data[out.row + 1])
       /\ \A r \in 0..(ScannedRows(data, arg) - 1) :
             \A t \in MaximalRuns(data[r + 1]) :
                \/ t[2] - t[1] < out.end_col - out.start_col
                \/ /\ t[2] - t[1] = out.end_col - out.start_col
                   /\ \/ r > out.row
                      \/ r = out.row /\ t[1] >= out.start_col

\* C2 witness: the header was found where a later run of the same row and a run
\* of a later scanned row have the same width, and a narrower run precedes it.
C2_Witness ==
    /\ pc = "found"
    /\ \E t \in MaximalRuns(data[out.row + 1]) :
          /\ t[1] > out.end_col
          /\ t[2] - t[1] = out.end_col - out.start_col
    /\ \E r \in (out.row + 1)..(ScannedRows(data, arg) - 1) :
          \E t \in MaximalRuns(data[r + 1]) :
             t[2] - t[1] = out.end_col - out.start_col

\* C3: find_header raises HeaderNotFoundError exactly when every cell of every
\* scanned row is blank (a grid without rows included), and returns a location
\* otherwise.
C3_NotFoundIffAllBlank ==
    HeaderSearched =>
        /\ (pc = "failed") <=>
              (\A t \in NonBlankCells(data) : t[1] >= ScannedRows(data, arg))
        /\ (pc = "failed") <=> (err.name = "HeaderNotFoundError")

\* C3 witness: the search failed on a grid whose scanned rows hold a blank text
\* cell, while a row that was not scanned holds a non-blank cell.
C3_Witness ==
    /\ pc = "failed"
    /\ \E r \in 1..ScannedRows(data, arg) :
          \E c \in 1..Len(data[r]) : data[r][c].kind = "str"
    /\ NonBlankCells(data) # {}

\* C4 (as claimed): for every grid with exactly one non-blank cell find_header
\* returns the location of that cell, with a span of width 1.
C4_SingleCellAnywhere ==
    (HeaderSearched /\ Cardinality(NonBlankCells(data)) = 1)
    => \E t \in NonBlankCells(data) :
          /\ pc = "found"
          /\ out = [row |-> t[1], start_col |-> t[2], end_col |-> t[2]]

\* C4 (amended): for every grid with exactly one non-blank cell, lying in a row
\* that find_header scans, find_header returns the location of that cell, with
\* a span of width 1.
C4_SingleCellScanned ==
    (/\ HeaderSearched
     /\ Cardinality(NonBlankCells(data)) = 1
     /\ \A t \in NonBlankCells(data) : t[1] < ScannedRows(data, arg))
    => \E t \in NonBlankCells(data) :
          /\ pc = "found"
          /\ out = [row |-> t[1], start_col |-> t[2], end_col |-> t[2]]

\* C4 witness: the search returned on a grid of several rows and columns whose
\* only non-blank cell is neither in the first row nor in the first column.
C4_Witness ==
    /\ pc = "found"
    /\ Cardinality(NonBlankCells(data)) = 1
    /\ out.row > 0
    /\ out.start_col > 0
    /\ \E r \in 1..Len(data) : \E c \in 1..Len(data[r]) : data[r][c].kind = "str"
                                                          /\ Blank(data[r][c])

\* C5 (as claimed; the code scans every row when search_nrows is 0): a location
\* find_header returns has 0 <= start_col <= end_col < column count and
\* 0 <= row < search_nrows, and the rows from index search_nrows on do not
\* change the outcome.
C5_LocationWithinScannedPrefix ==
    HeaderSearched =>
        /\ pc = "found" =>
              /\ 0 <= out.start_col
              /\ out.start_col <= out.end_col
              /\ out.end_col < Len(data[1])
              /\ 0 <= out.row
              /\ out.row < arg
        /\ find_header(data, arg) = find_header(PySlice(data, 0, arg), arg)

(***************************************************************************)
(* DataFrames: column labels and rows of cells; rows[r][c] is the cell of  *)
(* row r in the column labelled columns[c].                                *)
(***************************************************************************)
\* pandas' default column labels 0, 1, ... of a frame of c columns
RangeIndex(c) == [k \in 1..c |-> k - 1]

\* len(data.columns), and the width of the rows
NCols(df) == Len(df.columns)

\* The cells of column c of a frame, top to bottom
Column(df, c) == [r \in 1..Len(df.rows) |-> df.rows[r][c]]

\* A mutant of FfillColumn: a missing cell takes the cell right above it in the
\* input (ffill(limit=1)), so a second missing cell in a row stays missing.
FfillColumnLimitOne(col, r, last) ==
    [k \in 1..Len(col) |->
        IF isna(col[k]) /\ k > 1 THEN col[k - 1] ELSE col[k]]

\* DataFrame.ffill over one column from row r on, last being the last cell
\* above row r that is not missing (NA when there is none)
RECURSIVE FfillColumn(_, _, _)
FfillColumn(col, r, last) ==
    IF r > Len(col) THEN <<>>
    ELSE IF isna(col[r])
         THEN <<last>> \o FfillColumn(col, r + 1, last)
         ELSE <<col[r]>> \o FfillColumn(col, r + 1, col[r])

\* fill_missing_values: data.ffill(axis=0), a new frame
fill_missing_values(df) ==
    LET filled == [c \in 1..NCols(df) |-> FfillColumn(Column(df, c), 1, NA)]
    IN  [columns |-> df.columns,
         rows |-> [r \in 1..Len(df.rows) |->
                      [c \in 1..NCols(df) |-> filled[c][r]]]]

\* The cells of the tables that are filled: missing, blank text, two texts
FillCells == {NA, Str(<<" ">>), Str(<<"a">>), Str(<<"b">>)}

\* The frames over a set of cells, with pandas' default column labels
FramesOf(cells) ==
    {[columns |-> RangeIndex(IF g = <<>> THEN 1 ELSE Len(g[1])), rows |-> g] :
        g \in GridsOf(cells)}

(***************************************************************************)
(* The fill specification: fill_missing_values on a table, and once more   *)
(* on the table it returned.                                               *)
(***************************************************************************)
InitFill ==
    /\ pc = "start"
    /\ data \in FramesOf(FillCells)
    /\ arg = NoValue
    /\ out = NoValue
    /\ err = NoError
    /\ old = NoValue
    /\ EnvIdle

\* out = fill_missing_values(data)
FillMissingValues ==
    /\ pc = "start"
    /\ pc' = "filled"
    /\ out' = fill_missing_values(data)
    /\ old' = data
    /\ UNCHANGED <<data, arg, err>>
    /\ UNCHANGED envvars

\* data = out; out = fill_missing_values(data); arg keeps the first input
FillAgain ==
    /\ pc = "filled"
    /\ pc' = "refilled"
    /\ arg' = data
    /\ data' = out
    /\ old' = out
    /\ out' = fill_missing_values(out)
    /\ UNCHANGED err
    /\ UNCHANGED envvars

NextFill == FillMissingValues \/ FillAgain

SpecFill == InitFill /\ [][NextFill]_vars

(***************************************************************************)
(* Claims about fill_missing_values, in the words of the claims.           *)
(***************************************************************************)
\* The value the claim gives cell r of a column: the cell itself when it is not
\* blank, else the nearest non-blank cell above it, else the cell itself.
NearestNonBlankAbove(col, r) ==
    IF ~Blank(col[r]) \/ \A k \in 1..(r - 1) : Blank(col[k])
    THEN col[r]
    ELSE col[CHOOSE k \in 1..(r - 1) :
                 /\ ~Blank(col[k])
                 /\ \A j \in (k + 1)..(r - 1) : Blank(col[j])]

\* C9 (as claimed; the code fills missing cells only, blank text is a value to
\* it): fill_missing_values keeps the row and column counts, and in every
\* column each blank cell (missing, or whitespace only) takes the value of the
\* nearest non-blank cell above it, blank cells above the first non-blank cell
\* stay as they are, and non-blank cells are kept.
C9_FillsBlankCells ==
    pc = "filled" =>
        /\ Len(out.rows) = Len(data.rows)
        /\ out.columns = data.columns
        /\ \A r \in 1..Len(data.rows) :
              /\ Len(out.rows[r]) = Len(data.rows[r])
              /\ \A c \in 1..NCols(data) :
                    out.rows[r][c] = NearestNonBlankAbove(Column(data, c), r)

\* C10: fill_missing_values applied to the table it returned returns an equal
\* table.
C10_FillIdempotent ==
    pc = "refilled" => out = data

\* C10 witness: the second call was made on a table the first call had changed,
\* in which missing cells remain at the top of a column.
C10_Witness ==
    /\ pc = "refilled"
    /\ data # arg
    /\ Len(data.rows) >= 3
    /\ \E c \in 1..NCols(data) :
          /\ isna(data.rows[1][c])
          /\ ~isna(data.rows[2][c])
          /\ isna(arg.rows[3][c])

(***************************************************************************)
(* Pivot table specifications (src/src/tables.py).                         *)
(***************************************************************************)
MaxFields == 3      \* fields a pivot table names as values, rows and columns

\* tables.Calculation
Calculation == {"sum", "avg", "count"}

\* tables.Value(field, name, calculation, number_format='0')
Value(field, name, calculation) ==
    [field |-> field, name |-> name, calculation |-> calculation,
     number_format |-> "0"]

\* tables.Fields(values, rows, columns, filters)
Fields(values, rows, columns, filters) ==
    [values |-> values, rows |-> rows, columns |-> columns, filters |-> filters]

\* tables.PivotTable(name, fields)
PivotTable(name, fields) == [name |-> name, fields |-> fields]

\* The sequences of at most n elements of S
SeqsUpTo(S, n) == UNION {[1..k -> S] : k \in 0..n}

\* The values over the given fields and calculations
ValuesOf(fields, calcs) ==
    {Value(f, "shown", c) : <<f, c>> \in fields \X calcs}

\* set(s) of a Python sequence
ToSet(s) == {s[k] : k \in 1..Len(s)}

\* A mutant of get_required_fields: the filters are required as well.
get_required_fields_and_filters(table) ==
    ToSet(table.fields.columns) \cup ToSet(table.fields.rows)
        \cup ToSet(table.fields.filters)
        \cup ToSet([k \in 1..Len(table.fields.values) |->
                       table.fields.values[k].field])

\* get_required_fields: the fields added from columns, rows and the field of
\* every value
get_required_fields(table) ==
    ToSet(table.fields.columns) \cup ToSet(table.fields.rows)
        \cup ToSet([k \in 1..Len(table.fields.values) |->
                       table.fields.values[k].field])

\* errors.MissingTableFieldsError(table_name, available, missing): missing is
\* given as a set and available as the column labels, both kept as sets
MissingTableFieldsError(table_name, available, missing) ==
    [name |-> "MissingTableFieldsError", table_name |-> table_name,
     missing |-> missing, available |-> ToSet(available)]

\* validate_fields_exist: the error raised, NoError when it returns
validate_fields_exist(available, table) ==
    LET required == get_required_fields(table)
        missing == required \ ToSet(available)
    IN  IF missing # {}
        THEN MissingTableFieldsError(table.name, available, missing)
        ELSE NoError

\* The column labels of the validated tables
ValidatedColumns ==
    {<<>>, <<"A">>, <<"B">>, <<"C">>, <<"A", "B">>, <<"C", "A">>, <<"B", "C">>,
     <<"A", "B", "C">>, <<"D", "A">>}

(***************************************************************************)
(* The validation specification: core.run's call of validate_fields_exist  *)
(* with the columns of a table and a pivot table.                          *)
(***************************************************************************)
\* A table of some columns, and a pivot table T1 or T2 over the fields A, B
\* and C that names at least one value and at most MaxFields values, rows and
\* columns, with or without a filter
InitValidate ==
    /\ pc = "start"
    /\ data \in {[columns |-> cols, rows |-> <<>>] : cols \in ValidatedColumns}
    /\ \E v \in SeqsUpTo(ValuesOf({"A", "B", "C"}, {"sum", "count"}), MaxFields)
                   \ {<<>>} :
          \E r \in SeqsUpTo({"A", "B", "C"}, MaxFields - Len(v)) :
             \E c \in SeqsUpTo({"A", "B", "C"}, MaxFields - Len(v) - Len(r)) :
                \E n \in {"T1", "T2"} :
                   \E fl \in {<<>>, <<"C">>} :
                      arg = PivotTable(n, Fields(v, r, c, fl))
    /\ out = NoValue
    /\ err = NoError
    /\ old = NoValue
    /\ EnvIdle

\* utils.validate_fields_exist(data.columns, table)
ValidateFieldsExist ==
    /\ pc = "start"
    /\ err' = validate_fields_exist(data.columns, arg)
    /\ pc' = IF err'.name = "none" THEN "validated" ELSE "invalid"
    /\ old' = data
    /\ UNCHANGED <<data, arg, out>>
    /\ UNCHANGED envvars

NextValidate == ValidateFieldsExist

SpecValidate == InitValidate /\ [][NextValidate]_vars

(***************************************************************************)
(* Claims about validate_fields_exist, in the words of the claims.         *)
(***************************************************************************)
\* The fields the claim requires of a table: those of rows, of columns and of
\* the values of the pivot table
RequiredOf(table) ==
    {f \in {"A", "B", "C", "D"} :
        \/ \E k \in 1..Len(table.fields.rows) : table.fields.rows[k] = f
        \/ \E k \in 1..Len(table.fields.columns) : table.fields.columns[k] = f
        \/ \E k \in 1..Len(table.fields.values) :
              table.fields.values[k].field = f}

\* The labels among the columns of a table
AvailableIn(df) ==
    {f \in {"A", "B", "C", "D"} : \E k \in 1..Len(df.columns) : df.columns[k] = f}

\* C6: validate_fields_exist returns exactly when every required field (of
\* rows, columns and values) is among the available columns; otherwise it
\* raises MissingTableFieldsError with the name of the pivot table, the set of
\* available columns, and as missing exactly the required fields that are not
\* available.
C6_MissingIsExactDifference ==
    pc \in {"validated", "invalid"} =>
        /\ (pc = "validated") <=> (RequiredOf(arg) \ AvailableIn(data) = {})
        /\ pc = "validated" => err = NoError
        /\ pc = "invalid" =>
              /\ err.name = "MissingTableFieldsError"
              /\ err.table_name = arg.name
              /\ err.available = AvailableIn(data)
              /\ err.missing = RequiredOf(arg) \ AvailableIn(data)

\* C6 witness: the call raised for a pivot table that names a row, a column
\* and a filter that is neither required nor available, with some required
\* field available, one column not required, and a field missing.
C6_Witness ==
    /\ pc = "invalid"
    /\ arg.fields.rows # <<>>
    /\ arg.fields.columns # <<>>
    /\ \E k \in 1..Len(arg.fields.filters) :
          arg.fields.filters[k] \notin RequiredOf(arg) \cup AvailableIn(data)
    /\ RequiredOf(arg) \cap AvailableIn(data) # {}
    /\ AvailableIn(data) \ RequiredOf(arg) # {}
    /\ err.missing # {}

(***************************************************************************)
(* Type coercion.  A frame that is cast carries the dtype of each column;  *)
(* a float64 column holds floats and missing cells, an object column of    *)
(* the model holds texts and missing cells.                                *)
(***************************************************************************)
MaxValues == 2      \* values of a pivot table whose fields are cast
MaxCastRows == 2    \* rows of a table that is cast

Digits == {"0", "1", "2", "3", "4", "5", "6", "7", "8", "9"}

\* float(s) succeeds: after trimming, s is a decimal integer literal (the
\* literals of the model)
IsFloatLiteral(s) ==
    /\ strip(s) # <<>>
    /\ \A k \in 1..Len(strip(s)) : strip(s)[k] \in Digits

\* float(s) of such a literal: the float, which str() shows with ".0"
ParseFloat(s) == Float(strip(s) \o <<".", "0">>)

\* astype(float) can convert the cell
Castable(val) == val.kind \in {"na", "float"} \/ IsFloatLiteral(val.text)

\* astype(float) of a cell it can convert
AsFloat(val) == IF val.kind = "str" THEN ParseFloat(val.text) ELSE val

\* errors raised by astype(float) on a text that is no number
ValueError == [name |-> "ValueError"]

\* A mutant of is_strict_numerical: the comparison is inverted.
is_strict_numerical_inverted(value) == value.calculation = "count"

\* is_strict_numerical
is_strict_numerical(value) == value.calculation # "count"

\* data[column] = data[column].astype(float), in the frame itself
AssignAsFloat(df, c) ==
    [df EXCEPT !.dtypes[c] = "float64",
               !.rows = [r \in 1..Len(df.rows) |->
                            [df.rows[r] EXCEPT ![c] = AsFloat(df.rows[r][c])]]]

\* The for loop of cast_fields_dtypes from column c on: the frame as the loop
\* leaves it, and the error raised
RECURSIVE CastLoop(_, _, _)
CastLoop(df, fields_to_cast, c) ==
    IF c > NCols(df) THEN [data |-> df, raised |-> NoError]
    ELSE IF df.columns[c] \in fields_to_cast /\ df.dtypes[c] = "object"
         THEN IF \A r \in 1..Len(df.rows) : Castable(df.rows[r][c])
              THEN CastLoop(AssignAsFloat(df, c), fields_to_cast, c + 1)
              ELSE [data |-> df, raised |-> ValueError]
         ELSE CastLoop(df, fields_to_cast, c + 1)

\* cast_fields_dtypes: the frame data after the call (it is changed in place
\* and returned), and the error raised
cast_fields_dtypes(df, table) ==
    LET fields_to_cast ==
            {table.fields.values[k].field :
                k \in {j \in 1..Len(table.fields.values) :
                          is_strict_numerical(table.fields.values[j])}}
    IN  CastLoop(df, fields_to_cast, 1)

\* The cells of the tables that are cast
CastCells == {NA, Str(<<"1">>), Str(<<"x">>), Float(<<"2", ".", "5">>)}

\* The frames of columns A and B whose cells agree with the dtypes
CastFrames ==
    {[columns |-> <<"A", "B">>, dtypes |-> d, rows |-> g] :
        <<d, g>> \in
            {t \in [1..2 -> {"object", "float64"}]
                   \X UNION {[1..r -> [1..2 -> CastCells]] : r \in 0..MaxCastRows} :
                \A c \in 1..2 : \A r \in 1..Len(t[2]) :
                    \/ t[1][c] = "object" /\ t[2][r][c].kind \in {"na", "str"}
                    \/ t[1][c] = "float64" /\ t[2][r][c].kind \in {"na", "float"}}}

\* The pivot tables whose values are cast: up to MaxValues values of A and B
CastPivotTables ==
    {PivotTable("T1", Fields(v, <<>>, <<>>, <<>>)) :
        v \in SeqsUpTo(ValuesOf({"A", "B"}, Calculation), MaxValues) \ {<<>>}}

(***************************************************************************)
(* The cast specification: core.run's call of cast_fields_dtypes.          *)
(***************************************************************************)
InitCast ==
    /\ pc = "start"
    /\ data \in CastFrames
    /\ arg \in CastPivotTables
    /\ out = NoValue
    /\ err = NoError
    /\ old = NoValue
    /\ EnvIdle

\* data = utils.cast_fields_dtypes(data, table)
CastFieldsDtypes ==
    /\ pc = "start"
    /\ LET res == cast_fields_dtypes(data, arg)
       IN  /\ data' = res.data
           /\ err' = res.raised
           /\ IF res.raised = NoError
              THEN pc' = "cast" /\ out' = res.data
              ELSE pc' = "cast_failed" /\ out' = NoValue
    /\ old' = data
    /\ UNCHANGED arg
    /\ UNCHANGED envvars

NextCast == CastFieldsDtypes

SpecCast == InitCast /\ [][NextCast]_vars

(***************************************************************************)
(* Claims about cast_fields_dtypes, in the words of the claims.            *)
(***************************************************************************)
\* The columns (by position) backing a value of the pivot table with one of
\* the given calculations
ColumnsBacking(df, table, calcs) ==
    {c \in 1..Len(df.columns) :
        \E k \in 1..Len(table.fields.values) :
            /\ table.fields.values[k].field = df.columns[c]
            /\ table.fields.values[k].calculation \in calcs}

\* Column c of the frame has the dtype and the cells it had before the call
ColumnKept(c) ==
    /\ data.dtypes[c] = old.dtypes[c]
    /\ \A r \in 1..Len(old.rows) : data.rows[r][c] = old.rows[r][c]

\* cast_fields_dtypes has returned or raised
CastCalled == pc \in {"cast", "cast_failed"}

\* C7 (as claimed): after cast_fields_dtypes every column that backs a value
\* with calculation COUNT has the dtype and contents it had before, also when
\* it backs another value with calculation SUM or AVERAGE.
C7_CountColumnsKept ==
    CastCalled =>
        \A c \in ColumnsBacking(old, arg, {"count"}) : ColumnKept(c)

\* C7 (amended): after cast_fields_dtypes, whether it returned or raised, every
\* column that backs a value with calculation COUNT and no value with
\* calculation SUM or AVERAGE has the dtype and contents it had before.
C7_CountOnlyColumnsKept ==
    CastCalled =>
        \A c \in ColumnsBacking(old, arg, {"count"})
                   \ ColumnsBacking(old, arg, {"sum", "avg"}) : ColumnKept(c)

\* C7 witness: the call returned having cast another column, and a column of
\* dtype object holding a text backs only a COUNT value.
C7_Witness ==
    /\ pc = "cast"
    /\ data # old
    /\ \E c \in ColumnsBacking(old, arg, {"count"})
                  \ ColumnsBacking(old, arg, {"sum", "avg"}) :
          /\ old.dtypes[c] = "object"
          /\ \E r \in 1..Len(old.rows) : old.rows[r][c].kind = "str"

(***************************************************************************)
(* Computed fields.  The three source columns and the two computed columns *)
(* carry Cyrillic labels in the source, written here in Latin letters.     *)
(***************************************************************************)
MaxGroupRows == 3   \* rows of a table whose fields are computed

\* The grouping key column, the dosage column and the product name column
KeyColumn == "UNRZ"
DosageColumn == "Dozirovka"
ProductColumn == "MNN"
\* The combined label column and the rollup column
LabelColumn == "MNN+Dozirovka"
RollupColumn == "Skhema na UNRZ"

\* The position of the column labelled name
ColumnIndex(df, name) == CHOOSE c \in 1..Len(df.columns) : df.columns[c] = name

\* data[name]: the cells of the column labelled name
ColumnOf(df, name) == Column(df, ColumnIndex(df, name))

\* sep.join(items) of texts
RECURSIVE join(_, _)
join(sep, items) ==
    IF items = <<>> THEN <<>>
    ELSE IF Len(items) = 1 THEN items[1]
    ELSE items[1] \o sep \o join(sep, Tail(items))

\* ', '.join raises TypeError unless every item is a str
TypeError == [name |-> "TypeError"]

\* The labels of the rows from row r on whose key equals k, in row order: the
\* group that groupby(key)[label] hands to transform
RECURSIVE GroupLabels(_, _, _, _)
GroupLabels(keys, labels, k, r) ==
    IF r > Len(keys) THEN <<>>
    ELSE IF keys[r] = k
         THEN <<labels[r].text>> \o GroupLabels(keys, labels, k, r + 1)
         ELSE GroupLabels(keys, labels, k, r + 1)

\* groupby(key)[label].transform('; '.join): every row of a group gets the
\* joined labels of its group; groupby drops the rows whose key is missing
TransformJoin(keys, labels) ==
    [r \in 1..Len(keys) |->
        IF isna(keys[r]) THEN NA
        ELSE Str(join(<<";", " ">>, GroupLabels(keys, labels, keys[r], 1)))]

\* A mutant of LastRows: the first row of each group (head(1)).
LastRowsHead(keys) ==
    {r \in 1..Len(keys) :
        ~isna(keys[r]) /\ \A q \in 1..(r - 1) : keys[q] # keys[r]}

\* groupby(key).tail(1).index: the last row of each group
LastRows(keys) ==
    {r \in 1..Len(keys) :
        ~isna(keys[r]) /\ \A q \in (r + 1)..Len(keys) : keys[q] # keys[r]}

\* add_computed_fields: the frame returned, or the error raised
add_computed_fields(df) ==
    IF \E col \in {KeyColumn, DosageColumn, ProductColumn} :
           col \notin ToSet(df.columns)
    THEN [value |-> df, raised |-> NoError]
    ELSE LET keys == ColumnOf(df, KeyColumn)
             product == ColumnOf(df, ProductColumn)
             dosage == ColumnOf(df, DosageColumn)
         IN  IF \E r \in 1..Len(df.rows) :
                    product[r].kind # "str" \/ dosage[r].kind # "str"
             THEN [value |-> NoValue, raised |-> TypeError]
             ELSE LET labels == [r \in 1..Len(df.rows) |->
                                    Str(join(<<",", " ">>,
                                             <<product[r].text, dosage[r].text>>))]
                      joined == TransformJoin(keys, labels)
                      rollup == [r \in 1..Len(df.rows) |->
                                    IF r \in LastRows(keys) THEN joined[r] ELSE NA]
                  IN  [value |->
                          [columns |-> df.columns \o <<LabelColumn, RollupColumn>>,
                           rows |-> [r \in 1..Len(df.rows) |->
                                        df.rows[r] \o <<labels[r], rollup[r]>>]],
                       raised |-> NoError]

\* The frame without its column c
DropColumn(df, c) ==
    [columns |-> SubSeq(df.columns, 1, c - 1)
                     \o SubSeq(df.columns, c + 1, Len(df.columns)),
     rows |-> [r \in 1..Len(df.rows) |->
                  SubSeq(df.rows[r], 1, c - 1)
                      \o SubSeq(df.rows[r], c + 1, Len(df.rows[r]))]]

\* The tables with the three source columns: keys K1, K2 or missing, two
\* product names, a dosage or none
SourceFrames ==
    {[columns |-> <<KeyColumn, ProductColumn, DosageColumn>>, rows |-> g] :
        g \in UNION {[1..n -> {<<k, p, d>> :
                                  <<k, p, d>> \in
                                      {NA, Str(<<"K", "1">>), Str(<<"K", "2">>)}
                                      \X {Str(<<"p">>), Str(<<"q">>)}
                                      \X {Str(<<"5">>), NA}}] :
                        n \in 1..MaxGroupRows}}

\* The tables add_computed_fields is given: with the source columns, or with
\* one of them absent
ComputedFrames ==
    SourceFrames \cup {DropColumn(df, c) : <<df, c>> \in SourceFrames \X (1..3)}

(***************************************************************************)
(* The computed fields specification: core.run's call of                   *)
(* add_computed_fields.                                                    *)
(***************************************************************************)
InitCompute ==
    /\ pc = "start"
    /\ data \in ComputedFrames
    /\ arg = NoValue
    /\ out = NoValue
    /\ err = NoError
    /\ old = NoValue
    /\ EnvIdle

\* data = utils.add_computed_fields(data)
AddComputedFields ==
    /\ pc = "start"
    /\ LET res == add_computed_fields(data)
       IN  /\ out' = res.value
           /\ err' = res.raised
           /\ pc' = IF res.raised # NoError THEN "compute_failed"
                    ELSE IF res.value = data THEN "unchanged"
                    ELSE "computed"
    /\ old' = data
    /\ UNCHANGED <<data, arg>>
    /\ UNCHANGED envvars

NextCompute == AddComputedFields

SpecCompute == InitCompute /\ [][NextCompute]_vars

(***************************************************************************)
(* Claims about add_computed_fields, in the words of the claims.           *)
(***************************************************************************)
\* The rows of the input whose grouping key is the text k
RowsOfKey(k) ==
    {r \in 1..Len(data.rows) : data.rows[r][1] = Str(k)}

\* The combined label of input row r: product name, ", ", dosage
CombinedLabel(r) == data.rows[r][2].text \o <<",", " ">> \o data.rows[r][3].text

\* The combined labels of the rows R joined in row order with "; "
RECURSIVE LabelsJoined(_)
LabelsJoined(R) ==
    LET first == CHOOSE r \in R : \A q \in R : r <= q
    IN  IF R = {first} THEN CombinedLabel(first)
        ELSE CombinedLabel(first) \o <<";", " ">> \o LabelsJoined(R \ {first})

\* The cell of the rollup column in row r of the returned table
RollupCell(r) == out.rows[r][Len(out.columns)]

\* C8: when the three source columns are present and add_computed_fields
\* returns, for every value of the grouping key the last row of its group, and
\* no other row of the group, carries the rollup: the combined labels of all
\* rows of the group joined in row order with "; "; the other rows of the group
\* are missing in the rollup column.
C8_RollupOnLastRowOfGroup ==
    pc = "computed" =>
        /\ out.columns[Len(out.columns)] = RollupColumn
        /\ Len(out.rows) = Len(data.rows)
        /\ \A k \in {<<"K", "1">>, <<"K", "2">>} :
              LET R == RowsOfKey(k)
              IN  R # {} =>
                     /\ Cardinality({r \in R : RollupCell(r) # NA}) = 1
                     /\ \A r \in R :
                           IF \A q \in R : q <= r
                           THEN RollupCell(r) = Str(LabelsJoined(R))
                           ELSE RollupCell(r) = NA

\* C8 witness: the call returned for a table in which the rows of one key are
\* not contiguous and carry different labels.
C8_Witness ==
    /\ pc = "computed"
    /\ \E k \in {<<"K", "1">>, <<"K", "2">>} :
          \E r \in RowsOfKey(k) : \E q \in RowsOfKey(k) :
             /\ r + 1 < q
             /\ r + 1 \notin RowsOfKey(k)
             /\ CombinedLabel(r) # CombinedLabel(q)

(***************************************************************************)
(* core.run: the pipeline from the input file to the pivot tables.  Each   *)
(* call run makes is one step; the calls that reach outside the process    *)
(* (the file system, the Excel application) succeed or raise as the        *)
(* environment decides.                                                     *)
(***************************************************************************)

\* The most selected pivot tables of a run
MaxTables == 2

\* The most rows under the header row of an input sheet
MaxRunRows == 2

\* core.HEADER_SEARCH_NROWS
HEADER_SEARCH_NROWS == 15

\* errors.ExcelNotAvailableError, OpenExcelError, SheetNotFoundError and
\* WriteExcelError as run raises them
ExcelNotAvailableError == [name |-> "ExcelNotAvailableError"]

OpenExcelError == [name |-> "OpenExcelError"]

SheetNotFoundError == [name |-> "SheetNotFoundError"]

WriteExcelError == [name |-> "WriteExcelError"]

\* The error a call into the Excel application raises
ComError == [name |-> "com_error"]

\* The label a header cell becomes in data.columns: the cell's value
LabelOf(cell) ==
    IF isna(cell) THEN "nan"
    ELSE IF Len(cell.text) = 1 THEN cell.text[1] ELSE "text"

\* The table shrink_to_header returns as run's later stages see it: the
\* labels of its columns, and the dtypes iloc keeps.  A column that holds
\* the text of a header cell was read with dtype object.
HeaderFrame(rows, header) ==
    LET df == shrink_to_header(rows, header)
    IN  [columns |-> [c \in 1..Len(df.columns) |-> LabelOf(df.columns[c])],
         dtypes |-> [c \in 1..Len(df.columns) |-> "object"],
         rows |-> df.rows]

\* The params of a run: the selected pivot tables and what the sheet at
\* input_path holds
Params(pivot_tables, sheet) == [pivot_tables |-> pivot_tables, sheet |-> sheet]

\* The pivot tables a run selects from
RunPivotTables ==
    {PivotTable("T1", Fields(<<Value("A", "shown", "sum")>>, <<>>, <<>>, <<>>)),
     PivotTable("T2", Fields(<<Value("B", "shown", "count")>>, <<"A">>, <<>>, <<>>)),
     PivotTable("T3", Fields(<<Value("B", "shown", "avg")>>, <<>>, <<>>, <<>>))}

\* The header rows and the rows under them of the input sheets
RunHeaderRows ==
    {<<Str(<<"A">>), Str(<<"B">>), Str(<<"Z">>)>>,
     <<Str(<<"A">>), Str(<<"Z">>), NA>>,
     <<NA, NA, NA>>}

RunDataRows == {<<a, b, NA>> : a \in {Str(<<"1">>), Str(<<"x">>)},
                               b \in {Str(<<"1">>), Str(<<"x">>)}}

\* The call of run with params
InitRun ==
    /\ pc = "validate_excel_available"
    /\ data = NoValue
    /\ \E n \in 0..MaxTables : \E pivot_tables \in [1..n -> RunPivotTables] :
       \E h \in RunHeaderRows : \E m \in 1..MaxRunRows :
       \E rows \in [1..m -> RunDataRows] :
           arg = Params(pivot_tables, <<h>> \o rows)
    /\ out = NoValue
    /\ err = NoError
    /\ old = NoValue
    /\ EnvIdle

\* A call run has made: its name and the index of the pivot table it was for
Call(name, table) == [call |-> name, table |-> table]

\* run raises error at the call name
Raise(name, table, error) ==
    /\ pc' = "raised"
    /\ err' = error
    /\ log' = Append(log, Call(name, table))

\* Where run goes after the stages: into the loop over params.pivot_tables, or
\* past it when none is selected
LoopOr(first, after) == IF Len(arg.pivot_tables) = 0 THEN after ELSE first

\* utils.validate_excel_available()
RunValidateExcelAvailable ==
    /\ pc = "validate_excel_available"
    /\ \/ /\ excel' = [excel EXCEPT !.app = "running"]
          /\ pc' = "validate_filepath"
          /\ log' = Append(log, Call("validate_excel_available", 0))
          /\ UNCHANGED err
       \/ /\ Raise("validate_excel_available", 0, ExcelNotAvailableError)
          /\ UNCHANGED excel
    /\ UNCHANGED <<data, arg, out, old, cursor, written, pivots, gui>>

\* utils.validate_filepath of input_path and of output_path
RunValidateFilepath ==
    /\ pc = "validate_filepath"
    /\ \/ /\ pc' = "read_excel"
          /\ log' = Append(log, Call("validate_filepath", 0))
          /\ UNCHANGED err
       \/ Raise("validate_filepath", 0, OpenExcelError)
    /\ UNCHANGED <<data, arg, out, old, cursor, excel, written, pivots, gui>>

\* data = utils.read_excel(input_path, params.sheet_name)
RunReadExcel ==
    /\ pc = "read_excel"
    /\ \/ /\ data' = arg.sheet
          /\ pc' = "find_header"
          /\ log' = Append(log, Call("read_excel", 0))
          /\ UNCHANGED err
       \/ /\ \E error \in {OpenExcelError, SheetNotFoundError} :
                 Raise("read_excel", 0, error)
          /\ UNCHANGED data
    /\ UNCHANGED <<arg, out, old, cursor, excel, written, pivots, gui>>

\* data = utils.shrink_to_header(data, utils.find_header(data, 15))
RunShrinkToHeader ==
    /\ pc = "find_header"
    /\ LET found == find_header(data, HEADER_SEARCH_NROWS)
       IN  IF found.raised # NoError
           THEN /\ Raise("find_header", 0, found.raised)
                /\ UNCHANGED data
           ELSE /\ data' = HeaderFrame(data, found.value)
                /\ pc' = "fill_missing_values"
                /\ log' = Append(log, Call("shrink_to_header", 0))
                /\ UNCHANGED err
    /\ UNCHANGED <<arg, out, old, cursor, excel, written, pivots, gui>>

\* data = utils.fill_missing_values(data)
RunFillMissingValues ==
    /\ pc = "fill_missing_values"
    /\ data' = [data EXCEPT !.rows = fill_missing_values(data).rows]
    /\ pc' = "add_computed_fields"
    /\ log' = Append(log, Call("fill_missing_values", 0))
    /\ UNCHANGED <<arg, out, err, old, cursor, excel, written, pivots, gui>>

\* data = utils.add_computed_fields(data); the columns it adds hold texts
RunAddComputedFields ==
    /\ pc = "add_computed_fields"
    /\ LET res == add_computed_fields(data)
       IN  IF res.raised # NoError
           THEN /\ Raise("add_computed_fields", 0, res.raised)
                /\ UNCHANGED data
           ELSE /\ data' = [columns |-> res.value.columns,
                            dtypes |-> [c \in 1..Len(res.value.columns) |->
                                           IF c <= Len(data.dtypes)
                                           THEN data.dtypes[c]
                                           ELSE "object"],
                            rows |-> res.value.rows]
                /\ pc' = LoopOr("validate_fields_exist", "write_excel")
                /\ log' = Append(log, Call("add_computed_fields", 0))
                /\ UNCHANGED err
    /\ UNCHANGED <<arg, out, old, cursor, excel, written, pivots, gui>>

\* The first loop with a validation that reports the missing fields and
\* goes on
RunValidateFieldsExistGoesOn ==
    /\ pc = "validate_fields_exist"
    /\ pc' = "cast_fields_dtypes"
    /\ log' = Append(log, Call("validate_fields_exist", cursor + 1))
    /\ UNCHANGED <<data, arg, out, err, old, cursor, excel, written, pivots, gui>>

\* utils.validate_fields_exist(data.columns, table) of the first loop
RunValidateFieldsExist ==
    /\ pc = "validate_fields_exist"
    /\ LET error == validate_fields_exist(data.columns,
                                          arg.pivot_tables[cursor + 1])
       IN  IF error # NoError
           THEN Raise("validate_fields_exist", cursor + 1, error)
           ELSE /\ pc' = "cast_fields_dtypes"
                /\ log' = Append(log, Call("validate_fields_exist", cursor + 1))
                /\ UNCHANGED err
    /\ UNCHANGED <<data, arg, out, old, cursor, excel, written, pivots, gui>>

\* data = utils.cast_fields_dtypes(data, table) of the first loop, and the
\* loop's step to the next table
RunCastFieldsDtypes ==
    /\ pc = "cast_fields_dtypes"
    /\ LET res == cast_fields_dtypes(data, arg.pivot_tables[cursor + 1])
       IN  /\ data' = res.data
           /\ IF res.raised # NoError
              THEN /\ Raise("cast_fields_dtypes", cursor + 1, res.raised)
                   /\ UNCHANGED cursor
              ELSE /\ log' = Append(log, Call("cast_fields_dtypes", cursor + 1))
                   /\ IF cursor + 1 < Len(arg.pivot_tables)
                      THEN pc' = "validate_fields_exist" /\ cursor' = cursor + 1
                      ELSE pc' = "write_excel" /\ cursor' = 0
                   /\ UNCHANGED err
    /\ UNCHANGED <<arg, out, old, excel, written, pivots, gui>>

\* utils.write_excel(data, output_path, CLEANED_SHEET_NAME)
RunWriteExcel ==
    /\ pc = "write_excel"
    /\ \/ /\ written' = TRUE
          /\ out' = data
          /\ pc' = "workbook"
          /\ log' = Append(log, Call("write_excel", 0))
          /\ UNCHANGED err
       \/ /\ Raise("write_excel", 0, WriteExcelError)
          /\ UNCHANGED <<written, out>>
    /\ UNCHANGED <<data, arg, old, cursor, excel, pivots, gui>>

\* excel.workbook up to its yield: get_excel_instance returns the cached
\* application or starts one, and Workbooks.Open opens the file or fails
RunOpenWorkbook ==
    /\ pc = "workbook"
    /\ \/ /\ excel' = [excel EXCEPT !.app = "running", !.book = "open"]
          /\ pc' = "get_sheet"
          /\ log' = Append(log, Call("Workbooks.Open", 0))
          /\ UNCHANGED err
       \/ /\ excel' = [excel EXCEPT !.app = "running"]
          /\ Raise("Workbooks.Open", 0, OpenExcelError)
    /\ UNCHANGED <<data, arg, out, old, cursor, written, pivots, gui>>

\* ws = excel.get_sheet(wb, CLEANED_SHEET_NAME), the first call of the body
RunGetSheet ==
    /\ pc = "get_sheet"
    /\ log' = Append(log, Call("get_sheet", 0))
    /\ \/ /\ pc' = LoopOr("create_pivot_table", "Save")
          /\ UNCHANGED err
       \/ /\ pc' = "Close"
          /\ err' = ComError
    /\ UNCHANGED <<data, arg, out, old, cursor, excel, written, pivots, gui>>

\* excel.create_pivot_table(wb, ws, table, ...) of the second loop, and the
\* loop's step to the next table
RunCreatePivotTable ==
    /\ pc = "create_pivot_table"
    /\ log' = Append(log, Call("create_pivot_table", cursor + 1))
    /\ \/ /\ pivots' = Append(pivots, arg.pivot_tables[cursor + 1].name)
          /\ IF cursor + 1 < Len(arg.pivot_tables)
             THEN pc' = "create_pivot_table" /\ cursor' = cursor + 1
             ELSE pc' = "Save" /\ cursor' = 0
          /\ UNCHANGED err
       \/ /\ pc' = "Close"
          /\ err' = ComError
          /\ UNCHANGED <<pivots, cursor>>
    /\ UNCHANGED <<data, arg, out, old, excel, written, gui>>

\* workbook.Save(), reached when the body of the with block ended without
\* an error
RunSave ==
    /\ pc = "Save"
    /\ log' = Append(log, Call("Save", 0))
    /\ \/ /\ excel' = [excel EXCEPT !.saved = TRUE]
          /\ UNCHANGED err
       \/ /\ err' = ComError
          /\ UNCHANGED excel
    /\ pc' = "Close"
    /\ UNCHANGED <<data, arg, out, old, cursor, written, pivots, gui>>

\* workbook.Close(True) of the finally block; its argument is SaveChanges,
\* so closing stores the workbook as it is
RunClose ==
    /\ pc = "Close"
    /\ log' = Append(log, Call("Close", 0))
    /\ \/ /\ excel' = [excel EXCEPT !.book = "closed", !.closes = @ + 1,
                                    !.saved = TRUE]
          /\ pc' = "Quit"
          /\ UNCHANGED err
       \/ /\ pc' = "raised"
          /\ err' = ComError
          /\ UNCHANGED excel
    /\ UNCHANGED <<data, arg, out, old, cursor, written, pivots, gui>>

\* excel.Quit() of the finally block; then run returns, or the error of the
\* body goes on
RunQuit ==
    /\ pc = "Quit"
    /\ log' = Append(log, Call("Quit", 0))
    /\ excel' = [excel EXCEPT !.app = "quit"]
    /\ pc' = IF err = NoError THEN "returned" ELSE "raised"
    /\ UNCHANGED <<data, arg, out, err, old, cursor, written, pivots, gui>>

NextRun ==
    \/ RunValidateExcelAvailable
    \/ RunValidateFilepath
    \/ RunReadExcel
    \/ RunShrinkToHeader
    \/ RunFillMissingValues
    \/ RunAddComputedFields
    \/ RunValidateFieldsExist
    \/ RunCastFieldsDtypes
    \/ RunWriteExcel
    \/ RunOpenWorkbook
    \/ RunGetSheet
    \/ RunCreatePivotTable
    \/ RunSave
    \/ RunClose
    \/ RunQuit

SpecRun == InitRun /\ [][NextRun]_vars

\* The columns of df that hold numbers: what a coercion of a column leaves
NumericColumns(df) ==
    {f \in {"A", "B", "C", "D"} :
        \E c \in 1..Len(df.columns) :
            /\ df.columns[c] = f
            /\ \A r \in 1..Len(df.rows) : df.rows[r][c].kind \in {"na", "float"}}

\* The fields of table that are summed or averaged
CoercedOf(table) ==
    {f \in {"A", "B", "C", "D"} :
        \E k \in 1..Len(table.fields.values) :
            /\ table.fields.values[k].field = f
            /\ table.fields.values[k].calculation \in {"sum", "avg"}}

\* The run stopped at the validation or the coercion of a selected table
AbortedInLoop ==
    /\ pc = "raised"
    /\ log[Len(log)].call \in {"validate_fields_exist", "cast_fields_dtypes"}

\* C11: in core.run the fields of each selected pivot table are validated
\* before that table's columns are coerced, table by table in the order of
\* selection; and a run in which the validation or the coercion of any
\* selected table fails writes no output file and creates no pivot table, so
\* that an output file or a pivot table exists only when every selected table
\* has passed both.
C11_ValidateThenCastOrAbort ==
    /\ \A p \in 1..Len(log) :
          /\ log[p].call = "cast_fields_dtypes" =>
                p > 1 /\ log[p - 1] = Call("validate_fields_exist", log[p].table)
          /\ log[p].call = "validate_fields_exist" =>
                IF log[p].table = 1
                THEN log[p - 1].call = "add_computed_fields"
                ELSE log[p - 1] = Call("cast_fields_dtypes", log[p].table - 1)
    /\ AbortedInLoop => ~written /\ pivots = <<>> /\ out = NoValue
    /\ written \/ pivots # <<>> =>
          \A k \in 1..Len(arg.pivot_tables) :
              /\ RequiredOf(arg.pivot_tables[k]) \subseteq AvailableIn(data)
              /\ CoercedOf(arg.pivot_tables[k]) \subseteq NumericColumns(data)
              /\ \E p \in 1..Len(log) : \E q \in 1..Len(log) :
                    /\ p < q
                    /\ log[p] = Call("validate_fields_exist", k)
                    /\ log[q] = Call("cast_fields_dtypes", k)

\* A run that validated and coerced its first table and stopped at the
\* coercion of its second
C11_Witness ==
    /\ AbortedInLoop
    /\ err = ValueError
    /\ log[Len(log)] = Call("cast_fields_dtypes", 2)
    /\ \E p \in 1..Len(log) : log[p] = Call("cast_fields_dtypes", 1)
    /\ ~written

(***************************************************************************)
(* The stages and the table they receive.  In the specifications of the    *)
(* single stages data is the table object passed to the call as it is      *)
(* after the call, and old is what it held when the call was made.         *)
(***************************************************************************)

\* A call of shrink_to_header, fill_missing_values, add_computed_fields or
\* cast_fields_dtypes has returned or failed
StageCalled ==
    pc \in {"shrunk", "filled", "refilled", "computed", "unchanged",
            "compute_failed", "cast", "cast_failed"}

\* C12: after shrink_to_header, fill_missing_values, add_computed_fields or
\* cast_fields_dtypes has returned or failed, the table it was passed has the
\* columns, the cell values and the column types it had before the call.
C12_StagesKeepInput == StageCalled => data = old

(***************************************************************************)
(* The Excel application over a run                                         *)
(***************************************************************************)

\* run has returned or raised
RunEnded == pc \in {"returned", "raised"}

\* The body of the with block of run ended with an error: the call after a
\* call of the body is the Close of the finally block, not Save
BodyFailed ==
    \E p \in 1..(Len(log) - 1) :
        /\ log[p].call \in {"get_sheet", "create_pivot_table"}
        /\ log[p + 1].call = "Close"

\* C14: in core.run the Excel application is acquired before any pivot table
\* is created; on every path on which it was acquired it has been quit when
\* run returns or raises; a workbook that was opened is closed exactly once;
\* and the workbook is saved only when the body of the with block ended
\* without an error.
C14_ExcelAcquiredAndReleased ==
    /\ pivots # <<>> => excel.app # "none"
    /\ \A p \in 1..Len(log) :
          log[p].call = "create_pivot_table" =>
              \A q \in 1..(p - 1) : log[q].call # "Quit"
    /\ RunEnded /\ excel.app # "none" => excel.app = "quit"
    /\ excel.closes <= 1
    /\ RunEnded /\ excel.book # "none" => excel.closes = 1
    /\ excel.saved => ~BodyFailed

(***************************************************************************)
(* The front-end: Executor.execute runs the core in a worker process and   *)
(* reports its outcome, and TkinterGUI.execute_nonblocking runs execute in *)
(* a thread of its own.  Texts are sequences of pieces.  An exception is   *)
(* its class, its args, and the attributes msg, name and the ones of its   *)
(* class (attrs) that its __dict__ holds.                                  *)
(***************************************************************************)

\* The most clicks on the start button
MaxClicks == 2

\* The classes of errors.py under BaseError
BaseErrorClasses ==
    {"InternalError", "ExcelNotAvailableError", "OpenExcelError",
     "SheetNotFoundError", "WriteExcelError", "HeaderNotFoundError",
     "MissingTableFieldsError"}

\* isinstance(error, errors.BaseError)
IsBaseError(error) == error.cls \in BaseErrorClasses

\* Python's None
None == [cls |-> "NoneType", args |-> <<>>, msg |-> <<>>, name |-> "",
         attrs |-> <<>>]

\* A str value
PyStr(text) == [cls |-> "str", args |-> <<text>>, msg |-> <<>>, name |-> "",
                attrs |-> <<>>]

\* An exception of a class of Python or of a library, made with one message
Builtin(cls, text) == [cls |-> cls, args |-> <<text>>, msg |-> <<>>,
                       name |-> "", attrs |-> <<>>]

\* str(value): BaseError.__str__ returns msg, a str is itself, and any other
\* exception with one argument gives that argument
StrOf(value) == IF IsBaseError(value) THEN value.msg ELSE value.args[1]

\* BaseError.__init__(msg) after a subclass has set its own attributes
BaseError(cls, msg, attrs) ==
    [cls |-> cls, args |-> <<msg>>, msg |-> msg, name |-> cls, attrs |-> attrs]

\* errors.InternalError(source)
InternalError(source) ==
    BaseError("InternalError",
              <<"Internal error: \"">> \o StrOf(source) \o <<"\"">>,
              <<<<source.cls>>>>)

\* The number of arguments the __init__ of a class of errors.py takes
Arity(cls) ==
    CASE cls = "HeaderNotFoundError" -> 0
      [] cls = "MissingTableFieldsError" -> 3
      [] OTHER -> 1

\* cls(*args) for the classes of errors.py whose __init__ formats its
\* arguments into the message
New(cls, args) ==
    CASE cls = "InternalError" -> InternalError(args[1])
      [] cls = "HeaderNotFoundError" ->
            BaseError(cls, <<"Cannot find the header">>, <<>>)
      [] cls = "MissingTableFieldsError" ->
            BaseError(cls, <<"Missing columns for \"">> \o StrOf(args[1])
                              \o <<"\"; available: ">> \o StrOf(args[2])
                              \o <<"; missing: ">> \o StrOf(args[3]),
                      <<StrOf(args[1]), StrOf(args[3]), StrOf(args[2])>>)
      [] cls = "ExcelNotAvailableError" ->
            BaseError(cls, <<"Cannot start Excel: ">> \o StrOf(args[1]),
                      <<StrOf(args[1])>>)
      [] cls = "OpenExcelError" ->
            BaseError(cls, <<"Cannot open: \"">> \o StrOf(args[1]) \o <<"\"">>,
                      <<StrOf(args[1])>>)
      [] cls = "SheetNotFoundError" ->
            BaseError(cls, <<"Sheet not found: \"">> \o StrOf(args[1])
                              \o <<"\"">>,
                      <<StrOf(args[1])>>)
      [] cls = "WriteExcelError" ->
            BaseError(cls, <<"Cannot write: \"">> \o StrOf(args[1]) \o <<"\"">>,
                      <<StrOf(args[1])>>)

\* What Connection.send puts into the pipe for obj: an exception is reduced
\* to its class, its args and its __dict__
Dumps(obj) ==
    [cls |-> obj.cls, args |-> obj.args,
     dict |-> [msg |-> obj.msg, name |-> obj.name, attrs |-> obj.attrs]]

\* What Connection.recv makes of a message: the class is called with the
\* args, which raises TypeError when its __init__ takes another number of
\* arguments, and the __dict__ is put over the attributes of the new object
Loads(message) ==
    IF message.cls = "NoneType" THEN [raised |-> None, value |-> None]
    ELSE IF message.cls \notin BaseErrorClasses
    THEN [raised |-> None, value |-> Builtin(message.cls, message.args[1])]
    ELSE IF Len(message.args) # Arity(message.cls)
    THEN [raised |-> Builtin("TypeError", <<"__init__() arguments">>),
          value |-> None]
    ELSE [raised |-> None,
          value |-> [New(message.cls,
                         [k \in 1..Len(message.args) |-> PyStr(message.args[k])])
                        EXCEPT !.msg = message.dict.msg,
                               !.name = message.dict.name,
                               !.attrs = message.dict.attrs]]

\* What the core does in the worker process: it returns (None), or raises one
\* of the errors of run
CoreOutcomes ==
    {None,
     New("ExcelNotAvailableError", <<Builtin("com_error", <<"no Excel">>)>>),
     New("OpenExcelError", <<PyStr(<<"in.xlsx">>)>>),
     New("SheetNotFoundError", <<PyStr(<<"Sheet1">>)>>),
     New("HeaderNotFoundError", <<>>),
     New("MissingTableFieldsError",
         <<PyStr(<<"T1">>), PyStr(<<"A">>), PyStr(<<"B">>)>>),
     New("WriteExcelError", <<PyStr(<<"out.xlsx">>)>>),
     InternalError(Builtin("NotImplementedError", <<"unknown calculation">>)),
     Builtin("ValueError", <<"could not convert string to float">>),
     Builtin("com_error", <<"call failed">>)}

\* The thread execute_nonblocking starts, at the first statement of target
Thread ==
    [pc |-> "disable", outcome |-> None, pipe |-> <<>>, exception |-> None,
     handled |-> <<>>, raised |-> None]

\* A call of a handler of the GUI
Handled(handler, error) == [handler |-> handler, error |-> error]

\* The window after TkinterGUI is built, before any click
InitGui ==
    /\ pc = "mainloop"
    /\ data = NoValue
    /\ arg = NoValue
    /\ out = NoValue
    /\ err = NoError
    /\ old = NoValue
    /\ cursor = 0
    /\ log = <<>>
    /\ excel = [app |-> "none", book |-> "none", closes |-> 0, saved |-> FALSE]
    /\ written = FALSE
    /\ pivots = <<>>
    /\ gui = [controls |-> "normal", threads |-> <<>>]

\* The step of thread t to the thread record next
Step(t, next) == gui' = [gui EXCEPT !.threads[t] = next]

\* A click on the start button, which calls its command only while it is
\* enabled: execute_nonblocking starts a thread and returns to the main loop
ExecuteNonblocking ==
    /\ gui.controls = "normal"
    /\ Len(gui.threads) < MaxClicks
    /\ gui' = [gui EXCEPT !.threads = Append(@, Thread)]
    /\ UNCHANGED <<pc, data, arg, out, err, old, cursor, log, excel, written,
                   pivots>>

\* self.disable() of target, in the thread
Disable ==
    /\ \E t \in 1..Len(gui.threads) :
          /\ gui.threads[t].pc = "disable"
          /\ gui' = [gui EXCEPT !.controls = "disabled",
                                !.threads[t].pc = "execute"]
    /\ UNCHANGED <<pc, data, arg, out, err, old, cursor, log, excel, written,
                   pivots>>

\* Executor.execute up to process.start()
StartProcess ==
    /\ \E t \in 1..Len(gui.threads) :
          /\ gui.threads[t].pc = "execute"
          /\ Step(t, [gui.threads[t] EXCEPT !.pc = "join"])
    /\ UNCHANGED <<pc, data, arg, out, err, old, cursor, log, excel, written,
                   pivots>>

\* Process.run in the worker process, and the return of process.join()
ProcessRun ==
    /\ \E t \in 1..Len(gui.threads) : \E outcome \in CoreOutcomes :
          /\ gui.threads[t].pc = "join"
          /\ Step(t, [gui.threads[t] EXCEPT !.pc = "exception",
                                            !.outcome = outcome,
                                            !.pipe = <<Dumps(outcome)>>])
    /\ UNCHANGED <<pc, data, arg, out, err, old, cursor, log, excel, written,
                   pivots>>

\* if not process.exception: return self.gui.handle_finish(); the property
\* receives what the pipe holds
CheckException ==
    /\ \E t \in 1..Len(gui.threads) :
          /\ gui.threads[t].pc = "exception"
          /\ LET thread == gui.threads[t]
                 loaded == Loads(thread.pipe[1])
             IN  IF loaded.raised # None
                 THEN Step(t, [thread EXCEPT !.pc = "enable", !.pipe = <<>>,
                                             !.raised = loaded.raised])
                 ELSE IF loaded.value = None
                 THEN Step(t, [thread EXCEPT
                                  !.pc = "enable", !.pipe = <<>>,
                                  !.handled = Append(@, Handled("handle_finish",
                                                                None))])
                 ELSE Step(t, [thread EXCEPT !.pc = "handle_error",
                                             !.pipe = <<>>,
                                             !.exception = loaded.value])
    /\ UNCHANGED <<pc, data, arg, out, err, old, cursor, log, excel, written,
                   pivots>>

\* The rest of execute: the error is wrapped unless it is a BaseError, and
\* handed to handle_error
HandleError ==
    /\ \E t \in 1..Len(gui.threads) :
          /\ gui.threads[t].pc = "handle_error"
          /\ LET thread == gui.threads[t]
                 error == IF IsBaseError(thread.exception)
                          THEN thread.exception
                          ELSE InternalError(thread.exception)
             IN  Step(t, [thread EXCEPT
                             !.pc = "enable",
                             !.handled = Append(@, Handled("handle_error",
                                                           error))])
    /\ UNCHANGED <<pc, data, arg, out, err, old, cursor, log, excel, written,
                   pivots>>

\* self.enable() of the finally block of target; the thread ends
Enable ==
    /\ \E t \in 1..Len(gui.threads) :
          /\ gui.threads[t].pc = "enable"
          /\ gui' = [gui EXCEPT !.controls = "normal",
                                !.threads[t].pc = "ended"]
    /\ UNCHANGED <<pc, data, arg, out, err, old, cursor, log, excel, written,
                   pivots>>

NextGui ==
    \/ ExecuteNonblocking
    \/ Disable
    \/ StartProcess
    \/ ProcessRun
    \/ CheckException
    \/ HandleError
    \/ Enable

SpecGui == InitGui /\ [][NextGui]_vars

\* The call of execute made by thread t has ended, by return or by exception
ExecuteEnded(t) == gui.threads[t].pc \in {"enable", "ended"}

\* The text part occurs in text
Contains(text, part) ==
    \E a \in 0..(Len(text) - Len(part)) :
        SubSeq(text, a + 1, a + Len(part)) = part

\* The error a handler received is the error the core raised: its class, its
\* message, its name and the attributes of its class
SameError(received, raised) ==
    /\ received.cls = raised.cls
    /\ received.msg = raised.msg
    /\ received.name = raised.name
    /\ received.attrs = raised.attrs

\* C13: every call of Executor.execute ends having called exactly one of
\* handle_finish and handle_error: handle_finish only if the core returned in
\* the worker process; handle_error with the error the core raised when that
\* is a BaseError; and with an InternalError that keeps the class name and the
\* message of the exception the core raised when that is any other exception.
C13_ExactlyOneHandler ==
    \A t \in 1..Len(gui.threads) :
        ExecuteEnded(t) =>
            LET thread == gui.threads[t]
                call == thread.handled[1]
            IN  /\ Len(thread.handled) = 1
                /\ call.handler = "handle_finish" => thread.outcome = None
                /\ thread.outcome # None =>
                      /\ call.handler = "handle_error"
                      /\ IF thread.outcome.cls \in BaseErrorClasses
                         THEN SameError(call.error, thread.outcome)
                         ELSE /\ call.error.cls = "InternalError"
                              /\ call.error.attrs = <<<<thread.outcome.cls>>>>
                              /\ Contains(call.error.msg, thread.outcome.args[1])

\* The run thread t was started for is in progress
InProgress(t) == gui.threads[t].pc # "ended"

\* C15: at most one run is in progress at any time; from the click that
\* started a run until its call of execute has ended the controls are
\* disabled; and when every run has ended the controls are enabled.
C15_OneRunAtATime ==
    /\ Cardinality({t \in 1..Len(gui.threads) : InProgress(t)}) <= 1
    /\ \A t \in 1..Len(gui.threads) :
          ~ExecuteEnded(t) => gui.controls = "disabled"
    /\ (\A t \in 1..Len(gui.threads) : ~InProgress(t)) => gui.controls = "normal"

====
